---- MODULE Spec2Model ----
(***************************************************************************)
(* The power-factor panel of ElectricalCalculators                         *)
(* (src/powerFactorCalculator.js): the four input fields, the lock state   *)
(* kept in the closure of init, calculatePowerFactor with its six-way      *)
(* resolver, resetToInitialState, clearFields and the debounce timer.      *)
(*                                                                         *)
(* Numbers.  A JavaScript number is modelled as a fixed-point decimal of   *)
(* reduced range: an integer count of 1/Unit (Unit = Fine * Milli) of      *)
(* magnitude at most MaxNumber, or Infinity, -Infinity or NaN.  MaxNumber  *)
(* stands for Number.MAX_VALUE: a result beyond it is Infinity, as a       *)
(* double's is beyond 1.8e308, so a number whose square overflows is a     *)
(* number above sqrt(MaxValue) here and one above 1.3e154 in the browser.  *)
(* A result below 1/Unit is 0.  A field's numeric text carries three       *)
(* decimals (an integer count of 1/Milli), which is what toFixed(3)        *)
(* writes; parseFloat widens it to 1/Unit and toFixed(3) rounds a number   *)
(* back to 1/Milli.  Products, quotients and square roots are rounded to   *)
(* the nearest 1/Unit.                                                     *)
(***************************************************************************)
EXTENDS Integers, Sequences, FiniteSets, TLC

\* toFixed(3): three decimals
Milli == 1000
\* resolution of a number below one displayed decimal
Fine == 10
Unit == Fine * Milli
\* the largest finite number, in whole units
MaxValue == 4
MaxNumber == MaxValue * Unit

-----------------------------------------------------------------------------
(* Arithmetic of numbers *)

Infinity == MaxNumber + 1
NegInfinity == 0 - Infinity
NaN == MaxNumber + 2

isNaN(x) == x = NaN
isFinite(x) == x # NaN /\ x # Infinity /\ x # NegInfinity

\* Math.abs
Abs(a) == IF a = NaN THEN NaN ELSE IF a < 0 THEN 0 - a ELSE a

\* a < b and a > b: false when either is NaN
Less(a, b) == a # NaN /\ b # NaN /\ a < b
Greater(a, b) == Less(b, a)

\* n / d rounded to the nearest integer, halves away from zero (n >= 0, d > 0)
RoundDiv(n, d) == (n + d \div 2) \div d

\* the sign of a product or quotient of a and b
Signed(a, b, x) == IF (a < 0) = (b < 0) THEN x ELSE 0 - x

\* a * b
Mul(a, b) ==
    IF a = NaN \/ b = NaN THEN NaN
    ELSE IF a = 0 \/ b = 0 THEN (IF isFinite(a) /\ isFinite(b) THEN 0 ELSE NaN)
    ELSE IF ~isFinite(a) \/ ~isFinite(b) THEN Signed(a, b, Infinity)
    ELSE IF Abs(b) > (MaxNumber * Unit) \div Abs(a) THEN Signed(a, b, Infinity)
    ELSE Signed(a, b, RoundDiv(Abs(a) * Abs(b), Unit))

\* a / b
Div(a, b) ==
    IF a = NaN \/ b = NaN THEN NaN
    ELSE IF ~isFinite(a) THEN (IF isFinite(b) THEN Signed(a, b, Infinity) ELSE NaN)
    ELSE IF ~isFinite(b) THEN 0
    ELSE IF b = 0 THEN (IF a = 0 THEN NaN ELSE IF a > 0 THEN Infinity ELSE NegInfinity)
    ELSE LET q == RoundDiv(Abs(a) * Unit, Abs(b))
         IN  Signed(a, b, IF q > MaxNumber THEN Infinity ELSE q)

\* a + b
Add(a, b) ==
    IF a = NaN \/ b = NaN THEN NaN
    ELSE IF ~isFinite(a) THEN (IF ~isFinite(b) /\ b # a THEN NaN ELSE a)
    ELSE IF ~isFinite(b) THEN b
    ELSE IF a + b > MaxNumber THEN Infinity
    ELSE IF a + b < 0 - MaxNumber THEN NegInfinity
    ELSE a + b

\* a - b
Sub(a, b) == Add(a, IF b = NaN THEN NaN ELSE 0 - b)

RECURSIVE FloorSqrt(_, _, _)
\* the largest r in lo..hi with r * r <= n
FloorSqrt(n, lo, hi) ==
    IF lo >= hi THEN lo
    ELSE LET mid == (lo + hi + 1) \div 2
         IN  IF mid * mid <= n THEN FloorSqrt(n, mid, hi)
                               ELSE FloorSqrt(n, lo, mid - 1)

\* Math.sqrt
Sqrt(x) ==
    IF x = NaN \/ x < 0 THEN NaN
    ELSE IF x = Infinity THEN Infinity
    ELSE LET n == x * Unit
             r == FloorSqrt(n, 0, 46340)
         IN  IF n > r * r + r THEN r + 1 ELSE r

\* Math.acos of a number in [0, 1]: the angle is kept by its cosine
Acos(c) == [cos |-> c]
\* Math.sin of an angle in [0, pi/2]
Sin(angle) == Sqrt(Sub(Unit, Mul(angle.cos, angle.cos)))
\* x / Math.tan(angle) for an angle in (0, pi/2): the tangent is a ratio with
\* no unit, so it is kept as sine over cosine and never overflows by itself
DivTan(x, angle) == Div(Mul(x, angle.cos), Sin(angle))

\* x < 1e-9 for x >= 0: 1e-9 is below 1/Unit, so only 0 is under it
BelowEpsilon(x) == x # NaN /\ x < 1

-----------------------------------------------------------------------------
(* Field texts *)

Ids == {"kw", "kva", "kvar", "pf"}
\* const inputs = [kwInput, kvaInput, kvarInput, pfInput]
inputs == <<"kw", "kva", "kvar", "pf">>

EmptyText == [k |-> "empty", n |-> 0]
\* a non-empty text parseFloat cannot read
BadText == [k |-> "bad", n |-> 0]
\* a decimal text, m thousandths
NumText(m) == [k |-> "num", n |-> m]
\* the text "Infinity" or "-Infinity", which toFixed gives an infinite number
InfinityText(sign) == [k |-> "inf", n |-> sign]

\* inputElement.value.trim() === ''
IsBlank(t) == t.k = "empty"
\* parseFloat(text)
parseFloat(t) ==
    IF t.k = "num" THEN t.n * Fine
    ELSE IF t.k = "inf" THEN (IF t.n < 0 THEN NegInfinity ELSE Infinity)
    ELSE NaN
\* if (Math.abs(outputValue) < 1e-9) outputValue = 0; outputValue.toFixed(3),
\* for a number that is not NaN
toFixed3(x) ==
    IF x = Infinity THEN InfinityText(1)
    ELSE IF x = NegInfinity THEN InfinityText(0 - 1)
    ELSE IF BelowEpsilon(Abs(x)) THEN NumText(0)
    ELSE IF x < 0 THEN NumText(0 - RoundDiv(0 - x, Fine))
    ELSE NumText(RoundDiv(x, Fine))

toUpperCase(id) == [kw |-> "KW", kva |-> "KVA", kvar |-> "KVAR", pf |-> "PF"][id]

IsPower(id) == id = "kw" \/ id = "kva" \/ id = "kvar"

-----------------------------------------------------------------------------
(* The resolver: lines 165-179 of calculatePowerFactor *)

\* position of an identifier in the order Array.prototype.sort gives strings
SortRank(id) == [kva |-> 1, kvar |-> 2, kw |-> 3, pf |-> 4][id]

\* the keys left in the order of insertion
SortKeysUnsorted(keys) == keys

\* Object.keys(currentValidInputs).sort() for two keys
SortKeys(keys) ==
    IF Len(keys) = 2 /\ SortRank(keys[2]) < SortRank(keys[1])
    THEN <<keys[2], keys[1]>> ELSE keys

\* a throw inside the try block, caught with its message
Thrown(msg) ==
    [ok |-> FALSE, msg |-> msg, kw |-> NaN, kva |-> NaN, kvar |-> NaN, pf |-> NaN]
\* a case that ran to its break
Results(kw, kva, kvar, pf) ==
    [ok |-> TRUE, msg |-> "", kw |-> kw, kva |-> kva, kvar |-> kvar, pf |-> pf]

\* (big*big < small*small) ? 0 : Math.sqrt(big*big - small*small)
Leg(big, small) ==
    IF Less(Mul(big, big), Mul(small, small)) THEN 0
    ELSE Sqrt(Sub(Mul(big, big), Mul(small, small)))

\* case 'kva-kw'
CaseKvaKw(kw, kva) ==
    IF kva = 0 /\ kw # 0 THEN Thrown("kVA cannot be 0 if kW is non-zero.")
    ELSE IF Greater(Abs(kw), Abs(kva))
    THEN Thrown("Absolute kW cannot be greater than absolute kVA.")
    ELSE LET pf == IF kva = 0 THEN (IF kw = 0 THEN Unit ELSE NaN) ELSE Div(kw, kva)
             kvar == Leg(kva, kw)
         IN  IF isNaN(pf) THEN Thrown("Calculation resulted in undefined PF.")
             ELSE Results(kw, kva, kvar, pf)

\* case 'kvar-kw'
CaseKvarKw(kw, kvar) ==
    LET kva == Sqrt(Add(Mul(kw, kw), Mul(kvar, kvar)))
        pf == IF kva = 0 THEN (IF kw = 0 THEN Unit ELSE NaN) ELSE Div(kw, kva)
    IN  IF isNaN(pf) THEN Thrown("Calculation resulted in undefined PF.")
        ELSE Results(kw, kva, kvar, pf)

\* case 'kw-pf'
CaseKwPf(kw, pf) ==
    IF pf = 0 /\ kw # 0 THEN Thrown("PF cannot be 0 if kW is non-zero.")
    ELSE IF Less(pf, 0) \/ Greater(pf, Unit) THEN Thrown("PF must be between 0 and 1.")
    ELSE LET kva == IF pf = 0 THEN (IF kw = 0 THEN 0 ELSE Infinity) ELSE Div(kw, pf)
         IN  IF ~isFinite(kva) THEN Thrown("kVA is infinite (PF=0 with non-zero kW).")
             ELSE Results(kw, kva, Leg(kva, kw), pf)

\* case 'kva-kvar'
CaseKvaKvar(kva, kvar) ==
    IF Greater(Abs(kvar), Abs(kva))
    THEN Thrown("Absolute kVAR cannot be greater than absolute kVA.")
    ELSE LET kw == Leg(kva, kvar)
             pf == IF kva = 0 THEN (IF kw = 0 THEN Unit ELSE NaN) ELSE Div(kw, kva)
         IN  IF isNaN(pf) THEN Thrown("Calculation resulted in undefined PF.")
             ELSE Results(kw, kva, kvar, pf)

\* case 'kva-pf'
CaseKvaPf(kva, pf) ==
    IF Less(pf, 0) \/ Greater(pf, Unit) THEN Thrown("PF must be between 0 and 1.")
    ELSE LET kw == Mul(kva, pf)
         IN  Results(kw, kva, Leg(kva, kw), pf)

\* case 'kvar-pf'
CaseKvarPf(kvar, pf) ==
    IF Less(pf, 0) \/ Greater(pf, Unit) THEN Thrown("PF must be between 0 and 1.")
    ELSE IF pf = Unit /\ kvar # 0 THEN Thrown("PF cannot be 1 if kVAR is non-zero.")
    ELSE IF pf = 0 /\ kvar = 0 THEN Results(0, 0, kvar, pf)
    ELSE IF pf = Unit
    THEN Thrown("Cannot calculate from kVAR and PF=1. Please provide kW or kVA instead.")
    ELSE IF pf = 0 THEN Results(0, Abs(kvar), kvar, pf)
    ELSE LET angle == Acos(pf)
             kw == IF BelowEpsilon(Abs(pf)) THEN 0 ELSE DivTan(kvar, angle)
             kva == IF BelowEpsilon(Abs(Sub(pf, Unit))) THEN Abs(kw)
                    ELSE Div(kvar, Sin(angle))
         IN  Results(kw, kva, kvar, pf)

\* the try block: sort the keys, build pairKey, switch on it.
\* cvi is currentValidInputs: its keys in insertion order and their values.
Resolve(cvi) ==
    LET sortedKeys == SortKeys(cvi.keys)
        v == cvi.val
    IN  IF Len(sortedKeys) # 2 THEN Thrown("Internal error: Expected 2 valid inputs.")
        ELSE LET pairKey == <<sortedKeys[1], sortedKeys[2]>>
             IN  CASE pairKey = <<"kva", "kw">> -> CaseKvaKw(v["kw"], v["kva"])
                   [] pairKey = <<"kvar", "kw">> -> CaseKvarKw(v["kw"], v["kvar"])
                   [] pairKey = <<"kw", "pf">> -> CaseKwPf(v["kw"], v["pf"])
                   [] pairKey = <<"kva", "kvar">> -> CaseKvaKvar(v["kva"], v["kvar"])
                   [] pairKey = <<"kva", "pf">> -> CaseKvaPf(v["kva"], v["pf"])
                   [] pairKey = <<"kvar", "pf">> -> CaseKvarPf(v["kvar"], v["pf"])
                   [] OTHER -> Thrown("Invalid input pair detected.")

-----------------------------------------------------------------------------
(* The panel: the DOM state of the section and the closure state of init *)

\* resetPlaceholder(inputElement): the placeholder it sets
resetPlaceholder(id) == IF id = "pf" THEN "Enter value (0-1)" ELSE "Enter value"

\* setReadOnly(inputElement, isReadOnly) on field id of panel p
setReadOnly(p, id, isReadOnly) ==
    [p EXCEPT !.readOnly[id] = isReadOnly,
              !.placeholder[id] =
                  IF isReadOnly /\ p.value[id] # EmptyText THEN "Calculated"
                  ELSE IF ~isReadOnly /\ p.value[id] = EmptyText THEN resetPlaceholder(id)
                  ELSE @]

\* a reset that empties every input
ResetInputEmpties(p, id) ==
    LET editable == setReadOnly([p EXCEPT !.value[id] = EmptyText], id, FALSE)
    IN  [editable EXCEPT !.placeholder[id] = resetPlaceholder(id)]

\* a reset that leaves unparseable text in an editable input
ResetInputKeepsText(p, id) ==
    LET cleared == IF p.readOnly[id] THEN [p EXCEPT !.value[id] = EmptyText] ELSE p
        editable == setReadOnly(cleared, id, FALSE)
    IN  [editable EXCEPT !.placeholder[id] = resetPlaceholder(id)]

\* the body of the forEach in resetToInitialState, for one input
ResetInput(p, id) ==
    LET cleared == IF p.readOnly[id]
                      \/ (~IsBlank(p.value[id]) /\ isNaN(parseFloat(p.value[id])))
                   THEN [p EXCEPT !.value[id] = EmptyText] ELSE p
        editable == setReadOnly(cleared, id, FALSE)
    IN  [editable EXCEPT !.placeholder[id] = resetPlaceholder(id)]

RECURSIVE ForEach(_, _, _)
\* seq.forEach(id => ...): the effects of the callback on acc, in order
ForEach(Body(_, _), acc, seq) ==
    IF seq = <<>> THEN acc ELSE ForEach(Body, Body(acc, Head(seq)), Tail(seq))

resetToInitialState(p) ==
    ForEach(ResetInput,
            [p EXCEPT !.initialCalculationDone = FALSE, !.sourceFieldIds = <<>>],
            inputs)

\* ClearInput that leaves a read-only field's text in place
ClearInputKeepDerived(p, id) ==
    LET editable == setReadOnly(IF p.readOnly[id] THEN p ELSE [p EXCEPT !.value[id] = EmptyText],
                                id, FALSE)
    IN  [editable EXCEPT !.placeholder[id] = resetPlaceholder(id)]

\* the body of the forEach in clearFields, for one input
ClearInput(p, id) ==
    LET editable == setReadOnly([p EXCEPT !.value[id] = EmptyText], id, FALSE)
    IN  [editable EXCEPT !.placeholder[id] = resetPlaceholder(id)]

clearStatusKept(p) == p
clearStatus(p) == [p EXCEPT !.status = ""]

clearFields(p) ==
    clearStatus(ForEach(ClearInput,
                        [p EXCEPT !.initialCalculationDone = FALSE, !.sourceFieldIds = <<>>],
                        inputs))

-----------------------------------------------------------------------------
(* calculatePowerFactor *)

\* sourceValues / potentialValidInputs: the keys in insertion order, and their values
NoInputs == [keys |-> <<>>, val |-> [id \in Ids |-> 0]]
Store(obj, id, x) == [keys |-> Append(obj.keys, id), val |-> [obj.val EXCEPT ![id] = x]]

\* inputs.map(inp => inp.id).filter(id => !sourceFieldIds.includes(id))
Targets(sourceIds) ==
    SelectSeq(inputs, LAMBDA id : \A i \in 1..Len(sourceIds) : sourceIds[i] # id)

\* RecalcCheck without the two range checks
RecalcCheckNoRange(acc, id) ==
    LET t == acc.p.value[id]
        failed == IsBlank(t) \/ isNaN(parseFloat(t))
        msg == "Please provide a valid number for " \o toUpperCase(id) \o "."
        q == IF failed THEN [acc.p EXCEPT !.status = msg] ELSE acc.p
    IN  IF failed \/ ~acc.proceedRecalc
        THEN [acc EXCEPT !.p = resetToInitialState(q), !.proceedRecalc = FALSE]
        ELSE [acc EXCEPT !.sourceValues = Store(@, id, parseFloat(t))]

\* the body of sourceFieldIds.forEach in recalculation mode, for one id.  The
\* return inside the callback ends that callback only: the loop goes on to the
\* next id of the array it started on, with proceedRecalc still false.
RecalcCheck(acc, id) ==
    LET t == acc.p.value[id]
        v == parseFloat(t)
        notNumber == IsBlank(t) \/ isNaN(v)
        negative == ~notNumber /\ IsPower(id) /\ Less(v, 0)
        pfRange == ~notNumber /\ id = "pf" /\ (Less(v, 0) \/ Greater(v, Unit))
        failed == notNumber \/ negative \/ pfRange
        msg == IF notNumber THEN "Please provide a valid number for " \o toUpperCase(id) \o "."
               ELSE IF negative THEN "Value for " \o toUpperCase(id) \o " cannot be negative."
               ELSE "Power Factor (PF) must be between 0 and 1."
        q == IF failed THEN [acc.p EXCEPT !.status = msg] ELSE acc.p
    IN  IF failed \/ ~acc.proceedRecalc
        THEN [acc EXCEPT !.p = resetToInitialState(q), !.proceedRecalc = FALSE]
        ELSE [acc EXCEPT !.sourceValues = Store(@, id, v)]

\* RecalculationMode with the source pair derived again from the fields: the
\* first two fields that hold a number become the sources
RecalculationModeRederived(p) ==
    LET pair == SubSeq(SelectSeq(inputs, LAMBDA id : ~isNaN(parseFloat(p.value[id]))), 1, 2)
        q == [p EXCEPT !.sourceFieldIds = pair]
        acc == ForEach(RecalcCheck,
                       [p |-> q, proceedRecalc |-> TRUE, sourceValues |-> NoInputs],
                       pair)
    IN  [p |-> acc.p, go |-> acc.proceedRecalc,
         currentValidInputs |-> acc.sourceValues,
         targetFieldIds |-> Targets(pair)]

\* if (initialCalculationDone) { ... }: validates the two locked sources
RecalculationMode(p) ==
    LET acc == ForEach(RecalcCheck,
                       [p |-> p, proceedRecalc |-> TRUE, sourceValues |-> NoInputs],
                       p.sourceFieldIds)
    IN  [p |-> acc.p, go |-> acc.proceedRecalc,
         currentValidInputs |-> acc.sourceValues,
         targetFieldIds |-> Targets(p.sourceFieldIds)]

\* an initial-mode check that passes over a field it cannot use
InitialCheckSkipsInvalid(acc, key) ==
    LET t == acc.p.value[key]
        v == parseFloat(t)
    IN  IF IsBlank(t) \/ isNaN(v) \/ (IsPower(key) /\ Less(v, 0))
           \/ (key = "pf" /\ (Less(v, 0) \/ Greater(v, Unit)))
        THEN acc
        ELSE [acc EXCEPT !.potentialValidInputs = Store(@, key, v),
                         !.validCount = @ + 1]

\* the body of inputs.forEach in initial mode, for one input
InitialCheck(acc, key) ==
    LET t == acc.p.value[key]
        v == parseFloat(t)
    IN  IF IsBlank(t) THEN acc
        ELSE IF isNaN(v)
        THEN [acc EXCEPT !.p.status = "Invalid number entered for " \o toUpperCase(key) \o ".",
                         !.hasInvalidFormat = TRUE]
        ELSE IF IsPower(key) /\ Less(v, 0)
        THEN [acc EXCEPT !.p.status = "Value for " \o toUpperCase(key) \o " cannot be negative.",
                         !.hasInvalidFormat = TRUE]
        ELSE IF key = "pf" /\ (Less(v, 0) \/ Greater(v, Unit))
        THEN [acc EXCEPT !.p.status = "Power Factor (PF) must be between 0 and 1.",
                         !.hasInvalidFormat = TRUE]
        ELSE [acc EXCEPT !.potentialValidInputs = Store(@, key, v),
                         !.validCount = @ + 1]

\* InitialMode that tells three or four valid fields what it tells one
InitialModeOneMessage(p) ==
    LET acc == ForEach(InitialCheck,
                       [p |-> p, validCount |-> 0, hasInvalidFormat |-> FALSE,
                        potentialValidInputs |-> NoInputs],
                       inputs)
        stop(q) == [p |-> resetToInitialState(q), go |-> FALSE,
                    currentValidInputs |-> NoInputs, targetFieldIds |-> <<>>]
    IN  IF acc.hasInvalidFormat THEN stop(acc.p)
        ELSE IF acc.validCount # 2
        THEN stop([acc.p EXCEPT !.status =
                       IF acc.validCount >= 1 THEN "Please provide one more value."
                       ELSE ""])
        ELSE [p |-> [acc.p EXCEPT !.sourceFieldIds = acc.potentialValidInputs.keys],
              go |-> TRUE,
              currentValidInputs |-> acc.potentialValidInputs,
              targetFieldIds |-> Targets(acc.potentialValidInputs.keys)]

\* else { ... }: looks for exactly two valid fields among the four
InitialMode(p) ==
    LET acc == ForEach(InitialCheck,
                       [p |-> p, validCount |-> 0, hasInvalidFormat |-> FALSE,
                        potentialValidInputs |-> NoInputs],
                       inputs)
        stop(q) == [p |-> resetToInitialState(q), go |-> FALSE,
                    currentValidInputs |-> NoInputs, targetFieldIds |-> <<>>]
    IN  IF acc.hasInvalidFormat THEN stop(acc.p)
        ELSE IF acc.validCount # 2
        THEN stop([acc.p EXCEPT !.status =
                       IF acc.validCount > 2 THEN "Please provide exactly two values."
                       ELSE IF acc.validCount = 1 THEN "Please provide one more value."
                       ELSE ""])
        ELSE [p |-> [acc.p EXCEPT !.sourceFieldIds = acc.potentialValidInputs.keys],
              go |-> TRUE,
              currentValidInputs |-> acc.potentialValidInputs,
              targetFieldIds |-> Targets(acc.potentialValidInputs.keys)]

\* the body of targetFieldIds.forEach in the UI update, for one id
WriteTargetOnce(p, id, results) ==
    IF p.readOnly[id] /\ p.value[id] # EmptyText THEN p
    ELSE IF isNaN(results[id])
    THEN [setReadOnly([p EXCEPT !.value[id] = EmptyText], id, FALSE)
              EXCEPT !.placeholder[id] = resetPlaceholder(id)]
    ELSE setReadOnly([p EXCEPT !.value[id] = toFixed3(results[id])], id, TRUE)

WriteTarget(p, id, results) ==
    IF isNaN(results[id])
    THEN [setReadOnly([p EXCEPT !.value[id] = EmptyText], id, FALSE)
              EXCEPT !.placeholder[id] = resetPlaceholder(id)]
    ELSE setReadOnly([p EXCEPT !.value[id] = toFixed3(results[id])], id, TRUE)

\* a UI update that also takes the texts out of the source fields
UpdateUIConsumes(p, results, targetFieldIds) ==
    LET written == ForEach(LAMBDA q, id : WriteTarget(q, id, results), p, targetFieldIds)
        editable == ForEach(LAMBDA q, id : setReadOnly([q EXCEPT !.value[id] = EmptyText],
                                                       id, FALSE),
                            written, p.sourceFieldIds)
    IN  [editable EXCEPT !.initialCalculationDone = TRUE]

\* if (calculationPossible) { ... }
UpdateUI(p, results, targetFieldIds) ==
    LET written == ForEach(LAMBDA q, id : WriteTarget(q, id, results), p, targetFieldIds)
        editable == ForEach(LAMBDA q, id : setReadOnly(q, id, FALSE), written,
                            p.sourceFieldIds)
    IN  [editable EXCEPT !.initialCalculationDone = TRUE]

\* PerformCalculation whose catch block does not reset the panel
PerformCalculationNoReset(p, currentValidInputs, targetFieldIds) ==
    LET results == Resolve(currentValidInputs)
    IN  IF results.ok THEN UpdateUI(p, results, targetFieldIds)
        ELSE [p EXCEPT !.status = "Calculation Error: " \o results.msg]

\* the try/catch and the UI update
PerformCalculation(p, currentValidInputs, targetFieldIds) ==
    LET results == Resolve(currentValidInputs)
    IN  IF results.ok THEN UpdateUI(p, results, targetFieldIds)
        ELSE resetToInitialState([p EXCEPT !.status = "Calculation Error: " \o results.msg])

\* calculatePowerFactor that looks for two valid fields on every run
calculatePowerFactorNoLock(p) ==
    LET m == InitialMode(clearStatus(p))
    IN  IF m.go THEN PerformCalculation(m.p, m.currentValidInputs, m.targetFieldIds)
        ELSE m.p

calculatePowerFactor(p) ==
    LET q == clearStatus(p)
        m == IF q.initialCalculationDone THEN RecalculationMode(q) ELSE InitialMode(q)
    IN  IF m.go THEN PerformCalculation(m.p, m.currentValidInputs, m.targetFieldIds)
        ELSE m.p

-----------------------------------------------------------------------------
(* State *)

\* how many timer handles the browser's timer table can hold at once
MaxTimers == 3
TimerIds == 1..MaxTimers

\* the texts a user types into a power field and into the power-factor field
PowerTexts ==
    {EmptyText, BadText, NumText(0 - 100), NumText(300), NumText(500), NumText(3000)}
PfTexts == {EmptyText, BadText, NumText(1500), NumText(600), NumText(1000)}
TypedTexts(id) == IF id = "pf" THEN PfTexts ELSE PowerTexts

-----------------------------------------------------------------------------
(* The frequency-droop panel (src/unnamed/part_001), a second panel of the   *)
(* page.  Its numbers are a long way from overflow: they are counts of       *)
(* 1/Unit of any size.  Its inputs are number inputs, whose value is empty   *)
(* or a decimal.                                                             *)

\* const allInputElements = [droopInput, baseFreqInput, pMaxInput, ...]
allInputElements ==
    <<"droop-percent", "base-frequency", "p-max", "p-initial",
      "deadband-lower", "deadband-higher", "frequency-actual">>
DroopIds == {allInputElements[i] : i \in 1..Len(allInputElements)}

WideAbs(a) == IF a < 0 THEN 0 - a ELSE a
\* a * b and a / b (b # 0), rounded to the nearest 1/Unit
WideMul(a, b) == Signed(a, b, RoundDiv(WideAbs(a) * WideAbs(b), Unit))
WideDiv(a, b) == Signed(a, b, RoundDiv(WideAbs(a) * Unit, WideAbs(b)))
\* parseFloat of a decimal text
WideParse(t) == t.n * Fine
\* deltaP.toFixed(3)
WideToFixed3(x) == NumText(Signed(x, 1, RoundDiv(WideAbs(x), Fine)))

\* the droop section as main.js generates it: status as the words of its text
InitialDroop ==
    [value |-> [id \in DroopIds |-> EmptyText], deltaP |-> EmptyText, status |-> <<>>]

\* function clearStatus() of the droop panel
clearStatusDroop(d) == [d EXCEPT !.status = <<>>]
resetOutputFields(d) == [d EXCEPT !.deltaP = EmptyText]

\* if (condition) validationErrors.push(message)
Pushed(condition, message) == IF condition THEN <<message>> ELSE <<>>

calculateDroop(d) ==
    LET cleared == resetOutputFields(clearStatusDroop(d))
        blank == {id \in DroopIds : IsBlank(cleared.value[id])}
        droopValue == WideParse(cleared.value["droop-percent"])
        baseFreqValue == WideParse(cleared.value["base-frequency"])
        pMaxValue == WideParse(cleared.value["p-max"])
        pInitialValue == WideParse(cleared.value["p-initial"])
        dbLowerValue == WideParse(cleared.value["deadband-lower"])
        dbHigherValue == WideParse(cleared.value["deadband-higher"])
        freqActualValue == WideParse(cleared.value["frequency-actual"])
        validationErrors ==
            Pushed(\E id \in DroopIds : cleared.value[id].k # "num",
                   "All inputs must be valid numbers.")
            \o Pushed(droopValue = 0, "Droop cannot be zero.")
            \o Pushed(baseFreqValue = 0, "Base Frequency cannot be zero.")
            \o Pushed(dbLowerValue > baseFreqValue, "Deadband Lower must be <= Base Frequency.")
            \o Pushed(dbHigherValue < baseFreqValue, "Deadband Higher must be >= Base Frequency.")
            \o Pushed(dbLowerValue > dbHigherValue,
                      "Deadband Lower cannot be greater than Deadband Higher.")
        droop == WideDiv(droopValue, 100 * Unit)
        Slope(deadband) ==
            WideMul(WideMul(WideDiv(0 - Unit, droop),
                            WideDiv(deadband - freqActualValue, baseFreqValue)),
                    pMaxValue)
        deltaP ==
            IF freqActualValue > dbHigherValue THEN pInitialValue - Slope(dbHigherValue)
            ELSE IF freqActualValue < dbLowerValue THEN pInitialValue - Slope(dbLowerValue)
            ELSE 0
    IN  IF blank # {}
        THEN IF blank # DroopIds
             THEN [cleared EXCEPT !.status = <<"Please fill all input fields.">>]
             ELSE cleared
        ELSE IF validationErrors # <<>>
        THEN [cleared EXCEPT !.status = <<"Validation Error(s):">> \o validationErrors]
        ELSE [cleared EXCEPT !.deltaP = WideToFixed3(deltaP)]

\* clearFields of the droop panel
clearFieldsDroop(d) ==
    clearStatusDroop(resetOutputFields([d EXCEPT !.value = [id \in DroopIds |-> EmptyText]]))

\* what the user types into a field of the droop panel
DroopTexts(id) ==
    IF id = "droop-percent" THEN {EmptyText, NumText(5000)}
    ELSE IF id = "base-frequency" THEN {EmptyText, NumText(50000)}
    ELSE IF id = "p-max" THEN {EmptyText, NumText(100000)}
    ELSE IF id = "p-initial" THEN {EmptyText, NumText(0)}
    ELSE IF id = "deadband-lower" THEN {EmptyText, NumText(49900)}
    ELSE IF id = "deadband-higher" THEN {EmptyText, NumText(50100)}
    ELSE {EmptyText, NumText(50200)}

\* ---------------------------------------------------------------------------
\* The page of src/main.js: one navigation button and one section for every
\* entry of the registry, each section holding the inputs of its field list.
\* ---------------------------------------------------------------------------

\* the ids of the registry's entries, in the order of the array
calculators ==
    <<"power-factor", "voltage-converter", "three-phase-power", "frequency-droop">>

CalculatorIds == {calculators[i] : i \in DOMAIN calculators}

\* the ids of the inputs of each entry's field list (separators make no input)
fields(c) ==
    CASE c = "power-factor" -> <<"kw", "kvar", "kva", "pf">>
      [] c = "voltage-converter" -> <<"vll", "vln">>
      [] c = "three-phase-power" ->
             <<"voltage-ll", "voltage-ln", "line-current", "power-factor",
               "apparent-power", "real-power", "reactive-power">>
      [] c = "frequency-droop" ->
             <<"droop-percent", "base-frequency", "p-max", "p-initial",
               "deadband-lower", "deadband-higher", "frequency-actual", "delta-p">>

\* the section of an entry followed by its inputs, as the loop appends them
SectionElements(c) ==
    <<[id |-> c, tag |-> "section", owner |-> c]>>
        \o [i \in DOMAIN fields(c) |-> [id |-> fields(c)[i], tag |-> "input", owner |-> c]]

RECURSIVE ContentFrom(_)
ContentFrom(i) ==
    IF i > Len(calculators) THEN <<>>
    ELSE SectionElements(calculators[i]) \o ContentFrom(i + 1)

\* the elements of the content container in tree order; an element is its index
Document == ContentFrom(1)

NoElement == 0

\* document.getElementById: the first element in tree order with the id
getElementById(id) ==
    LET hits == {i \in DOMAIN Document : Document[i].id = id}
    IN  IF hits = {} THEN NoElement
        ELSE CHOOSE i \in hits : \A j \in hits : i <= j

\* the section the loop created for an entry
SectionOf(c) ==
    CHOOSE i \in DOMAIN Document : Document[i].tag = "section" /\ Document[i].owner = c

\* calculators.find(...) finds the entry, and typeof entry.init is 'function'
hasInit(c) == c \in CalculatorIds

\* the sets of listeners an init attaches: its querySelector calls find the
\* entry's inputs only inside the entry's own section
Attached(el, c) ==
    IF Document[el].tag = "section" /\ Document[el].owner = c THEN 1 ELSE 0

\* an init that calls addEventListener on what querySelector found, unguarded,
\* throws when nothing was found; the other two skip missing elements
Throws(el, c) ==
    Attached(el, c) = 0 /\ c \in {"power-factor", "voltage-converter"}

\* the most clicks on one navigation button
MaxClicks == 2

VARIABLES
    value,                  \* input.value of each field
    readOnly,               \* input.readOnly of each field
    placeholder,            \* input.placeholder of each field
    status,                 \* statusDiv.textContent
    initialCalculationDone, \* closure variable of init
    sourceFieldIds,         \* closure variable of init
    timers,                 \* the pending timeouts of the browser
    timeout,                \* closure variable of debounce (0: undefined)
    changeListener,         \* whether init also listens for 'change' (second variant)
    lastOp,                 \* history: the handler that ran last
    before,                 \* history: the panel a recompute or Clear started from
    eager,                  \* the panel of a run that recomputes after every edit
    burst,                  \* the state of the comparison with that run
    edits,                  \* the number of edits of the current burst
    trip,                   \* a resolution of kw and kvar and a re-resolution
    droopValue,             \* value of each input of the droop panel
    deltaPOutput,           \* deltaPOutput.value
    droopStatus,            \* statusDiv.textContent of the droop panel
    droopTimers,            \* the pending timeouts of the droop panel's debounce
    droopTimeout,           \* closure variable of the droop panel's debounce
    activeSections,         \* the elements whose classList holds 'active'
    activeButtons,          \* the navigation buttons whose classList holds 'active'
    initialized,            \* the elements with dataset.initialized = 'true'
    initRuns,               \* history: the calls of each entry's init
    listeners,              \* the debounced input listeners attached to each panel
    armed,                  \* the pending timeouts of each panel's listeners
    recomputes,             \* history: the recomputes since the panel's last edit
    clicks                  \* history: the clicks on each navigation button

panelVars == <<value, readOnly, placeholder, status, initialCalculationDone, sourceFieldIds>>
compareVars == <<eager, burst, edits>>
NoTrip == [stage |-> "off"]
droopPanelVars == <<droopValue, deltaPOutput, droopStatus>>
droopVars == <<droopPanelVars, droopTimers, droopTimeout>>
navVars == <<activeSections, activeButtons, initialized, initRuns, listeners, armed,
             recomputes, clicks>>
calcVars == <<panelVars, timers, timeout, changeListener, lastOp, before, compareVars, trip,
              droopVars>>
vars == <<calcVars, navVars>>

\* the panel as one record
Panel ==
    [value |-> value, readOnly |-> readOnly, placeholder |-> placeholder,
     status |-> status, initialCalculationDone |-> initialCalculationDone,
     sourceFieldIds |-> sourceFieldIds]

SetPanel(p) ==
    /\ value' = p.value
    /\ readOnly' = p.readOnly
    /\ placeholder' = p.placeholder
    /\ status' = p.status
    /\ initialCalculationDone' = p.initialCalculationDone
    /\ sourceFieldIds' = p.sourceFieldIds

\* the section as main.js generates it, after init has run
InitialPanel ==
    [value |-> [id \in Ids |-> EmptyText],
     readOnly |-> [id \in Ids |-> FALSE],
     placeholder |-> [id \in Ids |-> resetPlaceholder(id)],
     status |-> "",
     initialCalculationDone |-> FALSE,
     sourceFieldIds |-> <<>>]

\* history: the panel a handler started from, less the status and the
\* placeholders, which calculatePowerFactor and clearFields overwrite unread
Started(p) == [p EXCEPT !.status = "", !.placeholder = InitialPanel.placeholder]

\* the droop panel after its init has run
\* the page after the DOMContentLoaded handler: the first entry is shown and
\* initialised
InitNavigation ==
    /\ activeSections = {SectionOf(calculators[1])}
    /\ activeButtons = {calculators[1]}
    /\ initialized = {getElementById(calculators[1])}
    /\ initRuns = [c \in CalculatorIds |-> IF c = calculators[1] THEN 1 ELSE 0]
    /\ listeners = [c \in CalculatorIds |->
                        IF c = calculators[1]
                        THEN Attached(getElementById(calculators[1]), c) ELSE 0]
    /\ armed = [c \in CalculatorIds |-> 0]
    /\ recomputes = [c \in CalculatorIds |-> 0]
    /\ clicks = [c \in CalculatorIds |-> 0]

InitDroop ==
    /\ droopValue = InitialDroop.value
    /\ deltaPOutput = InitialDroop.deltaP
    /\ droopStatus = InitialDroop.status
    /\ droopTimers = {}
    /\ droopTimeout = 0

Init ==
    /\ InitDroop
    /\ InitNavigation
    /\ value = InitialPanel.value
    /\ readOnly = InitialPanel.readOnly
    /\ placeholder = InitialPanel.placeholder
    /\ status = InitialPanel.status
    /\ initialCalculationDone = InitialPanel.initialCalculationDone
    /\ sourceFieldIds = InitialPanel.sourceFieldIds
    /\ timers = {}
    /\ timeout = 0
    /\ changeListener \in BOOLEAN
    /\ lastOp = "init"
    /\ before = Started(InitialPanel)
    /\ eager = InitialPanel
    /\ burst = "off"
    /\ edits = 0
    /\ trip = NoTrip

\* clearTimeout(handle)
clearTimeout(pending, handle) == pending \ {handle}

\* the longest burst of edits that is compared with a recompute on every edit
MaxBurst == 2

\* the handles setTimeout cannot return to the power-factor panel: those of
\* pending timeouts and the one the other panel's debounce still holds
HandlesInUse == timers \cup droopTimers \cup {droopTimeout}

\* executedFunction of debounce: clearTimeout(timeout); timeout = setTimeout(later, wait).
\* clearTimeout acts on whichever timeout of the page has the handle.
executedFunctionKeepsPending ==
    \E fresh \in TimerIds :
        /\ fresh \notin HandlesInUse
        /\ \A other \in TimerIds : other \notin HandlesInUse => fresh <= other
        /\ timers' = timers \cup {fresh}
        /\ droopTimers' = droopTimers
        /\ timeout' = fresh

executedFunction ==
    \E fresh \in TimerIds :
        /\ fresh \notin HandlesInUse
        /\ \A other \in TimerIds : other \notin HandlesInUse => fresh <= other
        /\ timers' = clearTimeout(timers, timeout) \cup {fresh}
        /\ droopTimers' = clearTimeout(droopTimers, timeout)
        /\ timeout' = fresh

\* the user types text t into an editable field: the 'input' listener runs
InputEvent(id, t) ==
    /\ ~readOnly[id]
    /\ t # value[id]
    /\ value' = [value EXCEPT ![id] = t]
    /\ executedFunction
    /\ edits' = IF lastOp # "input" THEN 1 ELSE 2      \* 2: two or more
    /\ lastOp' = "input"
    /\ before' = Started(InitialPanel)
    /\ UNCHANGED <<readOnly, placeholder, status, initialCalculationDone,
                   sourceFieldIds, changeListener, navVars, eager, burst, trip>>
    /\ UNCHANGED <<droopPanelVars, droopTimeout>>

\* a timeout that expires without running the function
laterIdle(tid) ==
    /\ tid \in timers
    /\ timers' = clearTimeout(timers \ {tid}, timeout)
    /\ droopTimers' = clearTimeout(droopTimers, timeout)
    /\ lastOp' = "idle"
    /\ UNCHANGED <<panelVars, before, timeout, changeListener, navVars, compareVars, trip>>
    /\ UNCHANGED <<droopPanelVars, droopTimeout>>

\* a pending timeout expires: later() runs clearTimeout(timeout) and the function
later(tid) ==
    /\ tid \in timers
    /\ timers' = clearTimeout(timers \ {tid}, timeout)
    /\ droopTimers' = clearTimeout(droopTimers, timeout)
    /\ SetPanel(calculatePowerFactor(Panel))
    /\ lastOp' = "timer"
    /\ before' = Started(Panel)
    /\ UNCHANGED <<timeout, changeListener, navVars, compareVars, trip>>
    /\ UNCHANGED <<droopPanelVars, droopTimeout>>

\* the 'change' listener of the second variant calls calculatePowerFactor directly
ChangeEvent ==
    /\ changeListener
    /\ SetPanel(calculatePowerFactor(Panel))
    /\ lastOp' = "change"
    /\ before' = Started(Panel)
    /\ UNCHANGED <<timers, timeout, changeListener, navVars, compareVars, trip, droopVars>>

\* a Clear that also drops the pending timeout
ClearClickCancels ==
    /\ SetPanel(clearFields(Panel))
    /\ lastOp' = "clear"
    /\ before' = Started(Panel)
    /\ timers' = {}
    /\ UNCHANGED <<timeout, changeListener, navVars, compareVars, trip, droopVars>>

\* click on the Clear button
ClearClick ==
    /\ SetPanel(clearFields(Panel))
    /\ lastOp' = "clear"
    /\ before' = Started(Panel)
    /\ UNCHANGED <<timers, timeout, changeListener, navVars, compareVars, trip, droopVars>>

Next ==
    \/ \E id \in Ids : \E t \in TypedTexts(id) : InputEvent(id, t)
    \/ \E tid \in TimerIds : later(tid)
    \/ ChangeEvent
    \/ ClearClick

Spec == Init /\ [][Next]_vars

-----------------------------------------------------------------------------
(* Recompute on every edit against recompute after the last edit.               *)
(* The panel variables are the debounced run: a burst of edits, then one       *)
(* calculatePowerFactor.  `eager` is a second run of the same edits from the   *)
(* panel state the burst started in, with calculatePowerFactor after each      *)
(* edit.  An edit is one the user can make in both runs: the field is          *)
(* editable in both.                                                           *)

InitCompare ==
    /\ Init
    /\ ~changeListener

\* one edit of a burst, made in both runs
BurstEdit(id, t) ==
    LET from == IF burst = "editing" THEN eager ELSE Panel
    IN  /\ edits < MaxBurst \/ burst # "editing"
        /\ ~readOnly[id] /\ ~from.readOnly[id]
        /\ t # value[id]
        /\ value' = [value EXCEPT ![id] = t]
        /\ eager' = calculatePowerFactor([from EXCEPT !.value[id] = t])
        /\ burst' = "editing"
        /\ edits' = IF burst = "editing" THEN edits + 1 ELSE 1
        /\ lastOp' = "input"
        /\ before' = Started([from EXCEPT !.value[id] = t])
        /\ UNCHANGED <<readOnly, placeholder, status, initialCalculationDone,
                       sourceFieldIds, timers, timeout, changeListener, navVars, trip, droopVars>>

\* the wait elapses after the last edit of the burst: the debounced run recomputes
BurstSettles ==
    /\ burst = "editing"
    /\ SetPanel(calculatePowerFactor(Panel))
    /\ burst' = IF before.value = value THEN "settled" ELSE "diverged"
    /\ lastOp' = "timer"
    /\ UNCHANGED <<before, eager, edits, timers, timeout, changeListener, navVars, trip, droopVars>>

NextCompare ==
    \/ \E id \in Ids : \E t \in TypedTexts(id) : BurstEdit(id, t)
    \/ BurstSettles

SpecCompare == InitCompare /\ [][NextCompare]_vars

-----------------------------------------------------------------------------
(* The resolver alone: the switch on pairKey applied to kw and kvar, then to   *)
(* a pair taken from its results.                                              *)

\* in-domain powers: 0, 0.3, 0.4, 0.5, 1.2 and one whose square overflows
TripValues == {0, 3 * Milli, 4 * Milli, 5 * Milli, 12 * Milli, 3 * Unit}

\* the six unordered pairs of fields, as the keys of currentValidInputs
Pairs == {<<"kw", "kva">>, <<"kw", "kvar">>, <<"kw", "pf">>,
          <<"kva", "kvar">>, <<"kva", "pf">>, <<"kvar", "pf">>}

\* currentValidInputs holding the values of results r under the keys of pair
InputsFrom(r, pair) ==
    [keys |-> pair,
     val |-> [id \in Ids |-> IF id \in {pair[1], pair[2]} THEN r[id] ELSE 0]]

\* can the fields hold r's values of the pair: finite, powers >= 0, 0 <= pf <= 1
InDomain(r, pair) ==
    \A i \in 1..2 :
        /\ isFinite(r[pair[i]])
        /\ r[pair[i]] >= 0
        /\ pair[i] = "pf" => r[pair[i]] <= Unit

InitResolver ==
    /\ InitDroop
    /\ InitNavigation
    /\ value = [id \in Ids |-> EmptyText]
    /\ readOnly = [id \in Ids |-> FALSE]
    /\ placeholder = [id \in Ids |-> resetPlaceholder(id)]
    /\ status = ""
    /\ initialCalculationDone = FALSE
    /\ sourceFieldIds = <<>>
    /\ timers = {}
    /\ timeout = 0
    /\ changeListener = FALSE
    /\ lastOp = "init"
    /\ before = Started(InitialPanel)
    /\ eager = InitialPanel
    /\ burst = "off"
    /\ edits = 0
    /\ \E P, Q \in TripValues :
           trip = [stage |-> "given", kw |-> P, kvar |-> Q]

\* the switch runs on the pair kw, kvar
ResolveGiven ==
    /\ trip.stage = "given"
    /\ trip' = [stage |-> "resolved",
                first |-> Resolve([keys |-> <<"kw", "kvar">>,
                                   val |-> [id \in Ids |->
                                              IF id = "kw" THEN trip.kw
                                              ELSE IF id = "kvar" THEN trip.kvar
                                              ELSE 0]])]
    /\ UNCHANGED <<panelVars, timers, timeout, changeListener, navVars, lastOp, before, compareVars,
                   droopVars>>

\* the switch runs again on another pair of the results
ResolveAgain(pair) ==
    /\ trip.stage = "resolved"
    /\ trip.first.ok
    /\ pair # <<"kw", "kvar">>
    /\ InDomain(trip.first, pair)
    /\ trip' = [stage |-> "resolved again", first |-> trip.first, pair |-> pair,
                second |-> Resolve(InputsFrom(trip.first, pair))]
    /\ UNCHANGED <<panelVars, timers, timeout, changeListener, navVars, lastOp, before, compareVars,
                   droopVars>>

NextResolver ==
    \/ ResolveGiven
    \/ \E pair \in Pairs : ResolveAgain(pair)

SpecResolver == InitResolver /\ [][NextResolver]_vars

-----------------------------------------------------------------------------
(* One run of the switch on pairKey, for every pair of fields, both orders of  *)
(* the two keys and in-domain values of the two fields.                        *)

\* in-domain powers: those of TripValues
PowerValues == TripValues
\* in-domain power factors: 0, 0.0001, 0.6, 0.8 and 1
PfValues == {0, 1, 6 * Milli, 8 * Milli, Unit}
ValuesOf(id) == IF id = "pf" THEN PfValues ELSE PowerValues

\* the two keys of a pair in the other order
Swapped(pair) == <<pair[2], pair[1]>>

InitPairs ==
    /\ InitDroop
    /\ InitNavigation
    /\ value = [id \in Ids |-> EmptyText]
    /\ readOnly = [id \in Ids |-> FALSE]
    /\ placeholder = [id \in Ids |-> resetPlaceholder(id)]
    /\ status = ""
    /\ initialCalculationDone = FALSE
    /\ sourceFieldIds = <<>>
    /\ timers = {}
    /\ timeout = 0
    /\ changeListener = FALSE
    /\ lastOp = "init"
    /\ before = Started(InitialPanel)
    /\ eager = InitialPanel
    /\ burst = "off"
    /\ edits = 0
    /\ \E pair \in Pairs : \E keys \in {pair, Swapped(pair)} :
       \E a \in ValuesOf(pair[1]) : \E b \in ValuesOf(pair[2]) :
           trip = [stage |-> "asked",
                   cvi |-> [keys |-> keys,
                            val |-> [id \in Ids |-> IF id = pair[1] THEN a
                                                    ELSE IF id = pair[2] THEN b
                                                    ELSE 0]]]

\* the try block runs on currentValidInputs
ResolvePair ==
    /\ trip.stage = "asked"
    /\ trip' = [stage |-> "answered", cvi |-> trip.cvi, results |-> Resolve(trip.cvi)]
    /\ UNCHANGED <<panelVars, timers, timeout, changeListener, navVars, lastOp, before, compareVars,
                   droopVars>>

NextPairs == ResolvePair

SpecPairs == InitPairs /\ [][NextPairs]_vars

-----------------------------------------------------------------------------
(* The two panels side by side: SpecPanels.  The power-factor panel and the  *)
(* droop panel each run their own init, so each has its own closure          *)
(* variables and its own debounce; the timeouts are the page's.              *)

Droop == [value |-> droopValue, deltaP |-> deltaPOutput, status |-> droopStatus]

SetDroop(d) ==
    /\ droopValue' = d.value
    /\ deltaPOutput' = d.deltaP
    /\ droopStatus' = d.status

\* executedFunction of the droop panel's debounce, with a timeout of its own
\* that is, wrongly, the power-factor panel's
executedFunctionDroopShared ==
    \E fresh \in TimerIds :
        /\ fresh \notin timers \cup droopTimers
        /\ \A other \in TimerIds : other \notin timers \cup droopTimers => fresh <= other
        /\ timers' = clearTimeout(timers, timeout)
        /\ droopTimers' = clearTimeout(droopTimers, timeout) \cup {fresh}
        /\ droopTimeout' = fresh
        /\ timeout' = fresh

\* executedFunction of the droop panel's debounce
executedFunctionDroop ==
    \E fresh \in TimerIds :
        /\ fresh \notin timers \cup droopTimers \cup {timeout}
        /\ \A other \in TimerIds :
               other \notin timers \cup droopTimers \cup {timeout} => fresh <= other
        /\ timers' = clearTimeout(timers, droopTimeout)
        /\ droopTimers' = clearTimeout(droopTimers, droopTimeout) \cup {fresh}
        /\ droopTimeout' = fresh
        /\ timeout' = timeout

\* the user types text t into an input of the droop panel
DroopInputEvent(id, t) ==
    /\ t # droopValue[id]
    /\ droopValue' = [droopValue EXCEPT ![id] = t]
    /\ executedFunctionDroop
    /\ lastOp' = "droop"
    /\ UNCHANGED <<deltaPOutput, droopStatus>>
    /\ UNCHANGED <<panelVars, changeListener, navVars, before, compareVars, trip>>

\* a pending timeout of the droop panel expires
laterDroop(tid) ==
    /\ tid \in droopTimers
    /\ droopTimers' = clearTimeout(droopTimers \ {tid}, droopTimeout)
    /\ timers' = clearTimeout(timers, droopTimeout)
    /\ SetDroop(calculateDroop(Droop))
    /\ lastOp' = "droop"
    /\ UNCHANGED <<droopTimeout, timeout>>
    /\ UNCHANGED <<panelVars, changeListener, navVars, before, compareVars, trip>>

\* the user clicks the Clear button of the droop panel
DroopClearClick ==
    /\ SetDroop(clearFieldsDroop(Droop))
    /\ lastOp' = "droop"
    /\ UNCHANGED <<droopTimers, droopTimeout>>
    /\ UNCHANGED <<panelVars, timers, timeout, changeListener, navVars, before, compareVars, trip>>

\* what the user types into the power-factor panel next to the droop panel
PanelTexts(id) ==
    IF id = "kw" THEN {EmptyText, NumText(300)}
    ELSE IF id = "kva" THEN {EmptyText, NumText(500)}
    ELSE {EmptyText}

InitPanels ==
    /\ Init
    /\ changeListener = FALSE

NextPanels ==
    \/ \E id \in Ids : \E t \in PanelTexts(id) : InputEvent(id, t)
    \/ \E tid \in TimerIds : later(tid)
    \/ ClearClick
    \/ \E id \in DroopIds : \E t \in DroopTexts(id) : DroopInputEvent(id, t)
    \/ \E tid \in TimerIds : laterDroop(tid)
    \/ DroopClearClick

SpecPanels == InitPanels /\ [][NextPanels]_vars

-----------------------------------------------------------------------------
(* The panel with timeouts that expire: SpecLive.  A timeout that stays       *)
(* pending expires, so the step of later(tid) is weakly fair for each handle; *)
(* an input event clears the pending timeout and sets one with another        *)
(* handle.  The user types one text per power field.                          *)

\* the step of later(tid), by what it does to the timeouts: it is enabled
\* exactly when later(tid) is, and in SpecLive only later(tid) takes it
Expires(tid) ==
    /\ tid \in timers
    /\ timers' = clearTimeout(timers \ {tid}, timeout)
    /\ lastOp' = "timer"

NextLive ==
    \/ \E id \in Ids : \E t \in PanelTexts(id) : InputEvent(id, t)
    \/ \E tid \in TimerIds : later(tid)
    \/ ChangeEvent
    \/ ClearClick

SpecLive ==
    Init /\ [][NextLive]_vars /\ \A tid \in TimerIds : WF_<<timers, lastOp>>(Expires(tid))

\* ---------------------------------------------------------------------------
\* Navigation between the panels (src/main.js).
\* ---------------------------------------------------------------------------

\* initializeCalculator without the dataset.initialized test
initializeCalculatorAgain(c) ==
    LET el == getElementById(c)
    IN  IF el = NoElement \/ ~hasInit(c)
        THEN UNCHANGED <<initialized, initRuns, listeners>>
        ELSE /\ initRuns' = [initRuns EXCEPT ![c] = @ + 1]
             /\ listeners' = [listeners EXCEPT ![c] = @ + Attached(el, c)]
             /\ initialized' = IF Throws(el, c) THEN initialized ELSE initialized \cup {el}

initializeCalculator(c) ==
    LET el == getElementById(c)
    IN  IF el = NoElement \/ el \in initialized \/ ~hasInit(c)
        THEN UNCHANGED <<initialized, initRuns, listeners>>
        ELSE /\ initRuns' = [initRuns EXCEPT ![c] = @ + 1]
             /\ listeners' = [listeners EXCEPT ![c] = @ + Attached(el, c)]
             /\ initialized' = IF Throws(el, c) THEN initialized ELSE initialized \cup {el}

switchCalculatorView(c) ==
    /\ activeSections' = {getElementById(c)} \ {NoElement}
    /\ activeButtons' = {c}
    /\ initializeCalculator(c)

\* a click on the navigation button of an entry
NavClick(c) ==
    /\ clicks[c] < MaxClicks
    /\ clicks' = [clicks EXCEPT ![c] = @ + 1]
    /\ switchCalculatorView(c)
    /\ UNCHANGED <<armed, recomputes, calcVars>>

\* an edit in an input of the panel that is shown: each debounced listener
\* attached to the input (re)arms its own timeout
PanelEdit(c) ==
    /\ SectionOf(c) \in activeSections
    /\ armed' = [armed EXCEPT ![c] = listeners[c]]
    /\ recomputes' = [recomputes EXCEPT ![c] = 0]
    /\ UNCHANGED <<activeSections, activeButtons, initialized, initRuns, listeners, clicks,
                   calcVars>>

\* one of the panel's timeouts expires and its listener recomputes
PanelTimer(c) ==
    /\ armed[c] > 0
    /\ armed' = [armed EXCEPT ![c] = @ - 1]
    /\ recomputes' = [recomputes EXCEPT ![c] = @ + 1]
    /\ UNCHANGED <<activeSections, activeButtons, initialized, initRuns, listeners, clicks,
                   calcVars>>

NextNav ==
    \/ \E c \in CalculatorIds : NavClick(c)
    \/ \E c \in CalculatorIds : PanelEdit(c)
    \/ \E c \in CalculatorIds : PanelTimer(c)

SpecNav == Init /\ [][NextNav]_vars

TypeOK ==
    /\ \A id \in Ids : value[id].k \in {"empty", "bad", "num", "inf"}
    /\ readOnly \in [Ids -> BOOLEAN]
    /\ timers \subseteq TimerIds

-----------------------------------------------------------------------------
(* Vocabulary of the claims *)

\* the lock states of the specification's Lock-State Tracker
Locked(p) == p.initialCalculationDone /\ Len(p.sourceFieldIds) = 2
Unlocked(p) == ~p.initialCalculationDone /\ p.sourceFieldIds = <<>>
SourceSet(p) == {p.sourceFieldIds[i] : i \in 1..Len(p.sourceFieldIds)}

\* the last step ran calculatePowerFactor, from the panel `before`
Recomputed == lastOp \in {"timer", "change"}

\* the Validator of the specification: a number in the field's domain
ValidText(id, t) ==
    /\ t.k = "num"
    /\ IsPower(id) => t.n >= 0
    /\ id = "pf" => t.n >= 0 /\ t.n <= Milli
ValidIds(p) == {id \in Ids : ValidText(id, p.value[id])}

\* what the resolver is given when the fields in S of panel p are the sources
PairInputs(p, S) ==
    [keys |-> SelectSeq(inputs, LAMBDA id : id \in S),
     val |-> [id \in Ids |-> IF id \in S THEN p.value[id].n * Fine ELSE 0]]

\* the pair a recompute started on panel p hands to the resolver, if it hands one
Attempts(p) ==
    IF Locked(p) THEN SourceSet(p) \subseteq ValidIds(p)
    ELSE Cardinality(ValidIds(p)) = 2 /\ \A id \in Ids \ ValidIds(p) : p.value[id] = EmptyText
AttemptedPair(p) == IF Locked(p) THEN SourceSet(p) ELSE ValidIds(p)

AllEditable == \A id \in Ids : ~readOnly[id]
\* no field holds a text the recompute wrote: each is as before, or emptied
NothingComputed == \A id \in Ids : value[id] \in {before.value[id], EmptyText}

-----------------------------------------------------------------------------
(* Claims *)

\* C1: once a recompute has locked a source pair, every later recompute that
\* succeeds keeps exactly that pair as sources, leaves the source texts alone and
\* writes the resolver's values for that pair into the other two fields; the
\* pair changes only by a reset (a failed recompute or Clear), which empties it.
C1_AfterRecompute ==
    (Recomputed /\ Locked(before) /\ initialCalculationDone) =>
        /\ sourceFieldIds = before.sourceFieldIds
        /\ \A id \in SourceSet(before) : value[id] = before.value[id] /\ ~readOnly[id]
        /\ \A id \in Ids \ SourceSet(before) :
               LET x == Resolve(PairInputs(before, SourceSet(before)))[id]
               IN  value[id] = IF isNaN(x) THEN EmptyText ELSE toFixed3(x)
C1_LockStep ==
    (Locked(Panel) /\ sourceFieldIds' # sourceFieldIds) =>
        /\ sourceFieldIds' = <<>>
        /\ ~initialCalculationDone'
        /\ lastOp' \in {"timer", "change", "clear"}
C1_LockPersistence == [] C1_AfterRecompute /\ [][C1_LockStep]_vars

\* C1 witness: a recompute in Locked state succeeded and rewrote a derived field
C1_Witness ==
    /\ Recomputed /\ Locked(before) /\ Locked(Panel)
    /\ \E id \in Ids \ SourceSet(before) : value[id] # before.value[id]

\* C2: a recompute takes the panel from Unlocked to Locked(pair) only when
\* exactly two fields hold valid in-domain numbers, every other field is empty
\* and the resolver accepts the pair; afterwards those two fields are the
\* sources and editable, the other two read-only with the computed values.
C2_LockOnlyOnTwoValid ==
    (Recomputed /\ Unlocked(before) /\ Locked(Panel)) =>
        LET V == ValidIds(before)
        IN  /\ Cardinality(V) = 2
            /\ \A id \in Ids \ V : before.value[id] = EmptyText
            /\ Resolve(PairInputs(before, V)).ok
            /\ SourceSet(Panel) = V
            /\ \A id \in V : ~readOnly[id] /\ value[id] = before.value[id]
            /\ \A id \in Ids \ V :
                   readOnly[id] /\ value[id] = toFixed3(Resolve(PairInputs(before, V))[id])

\* C2 witness: a recompute locked an Unlocked panel
C2_Witness == Recomputed /\ Unlocked(before) /\ Locked(Panel) /\ lastOp = "timer"

\* C3: a recompute in Locked(pair) that finds a source empty, unparseable,
\* negative (a power) or outside [0,1] (the power factor) ends Unlocked with
\* all four fields editable, writes no computed value and shows a message.
C3_InvalidSourceResets ==
    (Recomputed /\ Locked(before) /\ ~(SourceSet(before) \subseteq ValidIds(before))) =>
        /\ Unlocked(Panel)
        /\ AllEditable
        /\ NothingComputed
        /\ status # ""

\* C3 witness: a recompute found a locked source out of its domain
C3_Witness ==
    /\ Recomputed /\ Locked(before)
    /\ \E id \in SourceSet(before) :
           before.value[id].k = "num" /\ ~ValidText(id, before.value[id])

\* C4: when the resolver rejects the pair a recompute hands it, from Unlocked
\* or from Locked, the recompute ends Unlocked with all four fields editable,
\* the status carries the resolver's reason and no field holds a computed value.
C4_RejectedPairResets ==
    (Recomputed /\ Attempts(before)
       /\ ~Resolve(PairInputs(before, AttemptedPair(before))).ok) =>
        /\ Unlocked(Panel)
        /\ AllEditable
        /\ NothingComputed
        /\ status = "Calculation Error: "
                      \o Resolve(PairInputs(before, AttemptedPair(before))).msg

\* C4 witness: the resolver rejected the locked pair of a recompute
C4_Witness ==
    /\ Recomputed /\ Locked(before) /\ Attempts(before)
    /\ ~Resolve(PairInputs(before, AttemptedPair(before))).ok

\* the panel p with the texts of its two derived fields replaced by t1 and t2
WithDerivedTexts(p, t1, t2) ==
    LET derived == Targets(p.sourceFieldIds)
    IN  [p EXCEPT !.value[derived[1]] = t1, !.value[derived[2]] = t2]

\* C5: the values a recompute of a Locked panel writes to the derived fields
\* do not depend on the texts the derived fields held: whenever a recompute
\* keeps the lock, the same panel with any other texts in its two derived
\* fields ends the recompute with the same four field values.
C5_DerivedTextsIgnored ==
    (Recomputed /\ Locked(before) /\ Locked(Panel)) =>
        \A t1, t2 \in PowerTexts \cup PfTexts :
            calculatePowerFactor(WithDerivedTexts(before, t1, t2)).value = value

\* C5 witness: a Locked panel was recomputed after an edit and stayed Locked
\* with new derived values
C5_Witness ==
    /\ Recomputed /\ Locked(before) /\ Locked(Panel)
    /\ value # before.value

\* C6: a recompute of an Unlocked panel with exactly one valid field and
\* three empty fields ends Unlocked and changes no field's text.
C6_OneValueComputesNothing ==
    (Recomputed /\ Unlocked(before) /\ Cardinality(ValidIds(before)) = 1
       /\ \A id \in Ids \ ValidIds(before) : before.value[id] = EmptyText) =>
        /\ Unlocked(Panel)
        /\ value = before.value
        /\ AllEditable

\* C6 witness: a recompute ran on a single valid value
C6_Witness ==
    /\ Recomputed /\ Unlocked(before) /\ Cardinality(ValidIds(before)) = 1
    /\ \A id \in Ids \ ValidIds(before) : before.value[id] = EmptyText

\* C7: Clear, from Unlocked or from Locked, leaves the panel Unlocked with all
\* four fields empty and editable and the status empty.
C7_ClearResets ==
    lastOp = "clear" =>
        /\ Unlocked(Panel)
        /\ \A id \in Ids : value[id] = EmptyText /\ ~readOnly[id]
        /\ status = ""

\* C7 witness: Clear was clicked on a Locked panel
C7_Witness == lastOp = "clear" /\ Locked(before)

\* the outcome of a run, less the status
SameFieldsAndLock(p, q) ==
    /\ p.value = q.value
    /\ p.readOnly = q.readOnly
    /\ p.initialCalculationDone = q.initialCalculationDone
    /\ p.sourceFieldIds = q.sourceFieldIds

C9_Step ==
    /\ lastOp' = "input" =>
          /\ timers' = {timeout'}
          /\ timers \cap timers' = {}
          /\ UNCHANGED <<readOnly, status, initialCalculationDone, sourceFieldIds>>
    /\ lastOp' = "timer" =>
          /\ timers = {timeout}
          /\ timers' = {}
          /\ Panel' = calculatePowerFactor(Panel)

\* C9: an input event cancels the pending deferred recompute and schedules a
\* new one, so at most one is pending; an input event runs no recompute itself;
\* the deferred recompute that runs is the one scheduled by the last input
\* event, it evaluates the fields as they are then, and leaves none pending, so
\* a burst of edits causes one deferred recompute and no superseded one runs.
C9_DebounceCollapse ==
    /\ [](timers \subseteq {timeout} /\ Cardinality(timers) <= 1)
    /\ [][C9_Step]_vars

\* C9 witness: the deferred recompute has run once after a burst of several edits
C9_Witness ==
    /\ lastOp = "timer"
    /\ edits > 1
    /\ timers = {}

\* the numerical tolerance of the round trip: 0.005, above what the rounding
\* of the fixed-point arithmetic can add up to in two resolutions
Tolerance == 5 * Fine
Close(a, b) == (~isNaN(a) /\ a = b) \/ (isFinite(a) /\ isFinite(b) /\ Abs(a - b) <= Tolerance)

\* C10: when the resolver, given in-domain kw and kvar, has produced kva and
\* pf, resolving again from any other pair of the four results that the guards
\* accept reproduces all four of them (within the tolerance).
C10_RoundTrip ==
    (trip.stage = "resolved again" /\ trip.second.ok) =>
        \A id \in Ids : Close(trip.second[id], trip.first[id])

\* the switch has answered for the two fields x and y, given in either order
Answered(x, y) ==
    /\ trip.stage = "answered"
    /\ {trip.cvi.keys[1], trip.cvi.keys[2]} = {x, y}

\* C11: case 'kvar-pf'.  pf = 1 is rejected, with kvar # 0 and with kvar = 0;
\* pf = 0 gives kw = 0 and kva = kvar; for 0 < pf < 1 the case succeeds with
\* kw and kva such that kva^2 = kw^2 + kvar^2 and kw = kva * pf.
C11_KvarPf ==
    Answered("kvar", "pf") =>
        LET Q == trip.cvi.val["kvar"]
            F == trip.cvi.val["pf"]
            r == trip.results
        IN  /\ F = Unit /\ Q # 0 => ~r.ok /\ r.msg = "PF cannot be 1 if kVAR is non-zero."
            /\ F = Unit /\ Q = 0 => ~r.ok
            /\ F = 0 => r.ok /\ r.kw = 0 /\ r.kva = Q
            /\ 0 < F /\ F < Unit =>
                 /\ r.ok /\ r.kvar = Q /\ r.pf = F
                 /\ Close(Mul(r.kva, r.kva), Add(Mul(r.kw, r.kw), Mul(Q, Q)))
                 /\ Close(r.kw, Mul(r.kva, F))

\* every field of panel p is empty or holds a valid number
NoInvalidField(p) == \A id \in Ids : p.value[id] = EmptyText \/ ValidText(id, p.value[id])

\* C12: a recompute of an Unlocked panel with no invalid field and a number of
\* valid fields other than two stays Unlocked; the status is empty for none,
\* 'Please provide one more value.' for one and 'Please provide exactly two
\* values.' for three or four.
C12_StatusByCount ==
    (Recomputed /\ Unlocked(before) /\ NoInvalidField(before)
       /\ Cardinality(ValidIds(before)) # 2) =>
        /\ Unlocked(Panel)
        /\ status = CASE Cardinality(ValidIds(before)) = 0 -> ""
                      [] Cardinality(ValidIds(before)) = 1 -> "Please provide one more value."
                      [] OTHER -> "Please provide exactly two values."

\* C12 witness: a recompute found four valid fields in an Unlocked panel
C12_Witness ==
    /\ Recomputed /\ Unlocked(before) /\ NoInvalidField(before)
    /\ Cardinality(ValidIds(before)) = 4

\* C13: between handlers sourceFieldIds holds no field or two distinct fields;
\* it holds two exactly when initialCalculationDone is true, and then exactly
\* the two fields it does not hold are read-only; when it holds none, no field
\* is read-only.
C13_LockInvariant ==
    /\ Len(sourceFieldIds) \in {0, 2}
    /\ Cardinality(SourceSet(Panel)) = Len(sourceFieldIds)
    /\ Len(sourceFieldIds) = 2 <=> initialCalculationDone
    /\ Len(sourceFieldIds) = 2 => \A id \in Ids : readOnly[id] <=> id \notin SourceSet(Panel)
    /\ Len(sourceFieldIds) = 0 => AllEditable

\* C13 witness: a Locked panel between an edit of a source and its recompute
C13_Witness == Locked(Panel) /\ lastOp = "input" /\ timers # {}

\* C14: a recompute that succeeds leaves a number in each of the four fields:
\* two source fields, editable, and the two other fields, derived and
\* read-only; no derived field is left empty and editable.
C14_SuccessAllNumeric ==
    (Recomputed /\ Locked(Panel)) =>
        /\ Cardinality(SourceSet(Panel)) = 2
        /\ \A id \in Ids : value[id].k = "num"
        /\ \A id \in Ids : readOnly[id] <=> id \notin SourceSet(Panel)

\* C14 witness: a recompute has succeeded
C14_Witness == Recomputed /\ Locked(Panel) /\ status = "" /\ lastOp = "change"

\* the text is a number to parseFloat
NumericText(t) == ~IsBlank(t) /\ ~isNaN(parseFloat(t))
\* the text is not empty and not a number to parseFloat
UnparseableText(t) == ~IsBlank(t) /\ isNaN(parseFloat(t))
\* the last step was a recompute that ended in resetToInitialState
FailedRecompute == Recomputed /\ ~Locked(Panel)

\* C15 as claimed: after a recompute that failed, every field whose text was
\* unparseable is empty and every field whose text was numeric holds it still.
C15_ResetKeepsNumeric ==
    FailedRecompute =>
        \A id \in Ids :
            /\ UnparseableText(before.value[id]) => value[id] = EmptyText
            /\ NumericText(before.value[id]) => value[id] = before.value[id]

\* C15 amended: after a recompute that failed, every field that was read-only
\* and every field whose text was unparseable is empty, and every editable
\* field whose text was numeric holds it still, in its domain or not.
C15_ResetKeepsEditableNumeric ==
    FailedRecompute =>
        \A id \in Ids :
            /\ (before.readOnly[id] \/ UnparseableText(before.value[id])) => value[id] = EmptyText
            /\ (~before.readOnly[id] /\ NumericText(before.value[id])) =>
                   value[id] = before.value[id]

\* C15 witness: a failed recompute of a Locked panel emptied a read-only field
\* and an unparseable source and kept a negative source
C15_Witness ==
    /\ FailedRecompute /\ Locked(before)
    /\ \E id \in Ids : before.readOnly[id] /\ NumericText(before.value[id])
    /\ \E id \in Ids : UnparseableText(before.value[id])
    /\ \E id \in Ids : ~before.readOnly[id] /\ before.value[id] = NumText(0 - 100)

\* the state of the power-factor panel with its debounce, and of the droop panel
PowerFactorSide == <<panelVars, timers, timeout>>
DroopSide == droopVars

\* C16: an edit, a recompute or a Clear of one panel leaves the fields, the
\* lock state and the status of the other panel as they are, and leaves the
\* other panel's pending timeout pending and its debounce handle in place.
C16_PanelsIsolated ==
    [][ /\ lastOp' = "droop" => UNCHANGED PowerFactorSide
        /\ lastOp' \in {"input", "timer", "clear"} => UNCHANGED DroopSide ]_vars

\* C16 witness: both panels have computed and both have a recompute pending
C16_Witness ==
    /\ Locked(Panel) /\ timers # {}
    /\ deltaPOutput # EmptyText /\ droopTimers # {}

\* the relation of the pair of fields the resolver is given values of
OwnCase(cvi) ==
    LET pair == {cvi.keys[i] : i \in 1..Len(cvi.keys)}
        v == cvi.val
    IN  IF pair = {"kw", "kva"} THEN CaseKvaKw(v["kw"], v["kva"])
        ELSE IF pair = {"kw", "kvar"} THEN CaseKvarKw(v["kw"], v["kvar"])
        ELSE IF pair = {"kw", "pf"} THEN CaseKwPf(v["kw"], v["pf"])
        ELSE IF pair = {"kva", "kvar"} THEN CaseKvaKvar(v["kva"], v["kvar"])
        ELSE IF pair = {"kva", "pf"} THEN CaseKvaPf(v["kva"], v["pf"])
        ELSE CaseKvarPf(v["kvar"], v["pf"])

\* C17: a recompute that hands a pair to the resolver, whichever of the six
\* pairs it is and in whichever order the two fields were typed, gets the
\* outcome of the relation of exactly that pair: its values in the two other
\* fields, or its reason in the status; the status never reports an invalid
\* pair or a wrong number of inputs.
C17_PairDispatch ==
    /\ Recomputed =>
           status \notin {"Calculation Error: Invalid input pair detected.",
                          "Calculation Error: Internal error: Expected 2 valid inputs."}
    /\ (Recomputed /\ Attempts(before)) =>
           LET pair == AttemptedPair(before)
               own == OwnCase(PairInputs(before, pair))
           IN  IF own.ok
               THEN /\ SourceSet(Panel) = pair
                    /\ \A id \in Ids \ pair :
                           value[id] = IF isNaN(own[id]) THEN EmptyText ELSE toFixed3(own[id])
               ELSE status = "Calculation Error: " \o own.msg

\* C17 witness: a recompute locked the pair that sorts last, kvar and pf
C17_Witness ==
    /\ Recomputed /\ Unlocked(before) /\ Attempts(before)
    /\ AttemptedPair(before) = {"kvar", "pf"}
    /\ Locked(Panel) /\ status = ""

\* leg is a finite number >= 0 whose square is hyp^2 - side^2
IsLeg(leg, hyp, side) ==
    /\ isFinite(leg) /\ leg >= 0
    /\ Close(Mul(leg, leg), Sub(Mul(hyp, hyp), Mul(side, side)))

\* C18: case 'kva-kw'.  kw > kva is rejected, kva = 0 with kw # 0 included;
\* otherwise the case succeeds with pf = kw / kva and kvar >= 0 such that
\* kvar^2 = kva^2 - kw^2, and kva = 0 with kw = 0 gives pf = 1 and kvar = 0.
C18_KvaKw ==
    Answered("kva", "kw") =>
        LET S == trip.cvi.val["kva"]
            P == trip.cvi.val["kw"]
            r == trip.results
        IN  /\ P > S => ~r.ok
            /\ P <= S =>
                 /\ r.ok /\ r.kva = S /\ r.kw = P
                 /\ S # 0 => r.pf = Div(P, S)
                 /\ IsLeg(r.kvar, S, P)
                 /\ S = 0 => r.pf = Unit /\ r.kvar = 0

\* C19: case 'kva-kvar'.  kvar > kva is rejected; otherwise the case succeeds
\* with kw >= 0 such that kw^2 = kva^2 - kvar^2 and pf = kw / kva, and kva = 0
\* with kvar = 0 gives kw = 0 and pf = 1.
C19_KvaKvar ==
    Answered("kva", "kvar") =>
        LET S == trip.cvi.val["kva"]
            Q == trip.cvi.val["kvar"]
            r == trip.results
        IN  /\ Q > S => ~r.ok
            /\ Q <= S =>
                 /\ r.ok /\ r.kva = S /\ r.kvar = Q
                 /\ IsLeg(r.kw, S, Q)
                 /\ S # 0 => r.pf = Div(r.kw, S)
                 /\ S = 0 => r.kw = 0 /\ r.pf = Unit

\* C20: case 'kw-pf'.  pf = 0 with kw # 0 is rejected; kw = 0 with pf = 0 gives
\* kva = 0 and kvar = 0; for pf > 0 the case succeeds with kva = kw / pf and
\* kvar >= 0 such that kvar^2 = kva^2 - kw^2.
C20_KwPf ==
    Answered("kw", "pf") =>
        LET P == trip.cvi.val["kw"]
            F == trip.cvi.val["pf"]
            r == trip.results
        IN  /\ F = 0 /\ P # 0 => ~r.ok
            /\ F = 0 /\ P = 0 => r.ok /\ r.kva = 0 /\ r.kvar = 0
            /\ F > 0 =>
                 /\ r.ok /\ r.kw = P /\ r.pf = F
                 /\ r.kva = Div(P, F) /\ isFinite(r.kva)
                 /\ IsLeg(r.kvar, r.kva, P)

\* C21: case 'kvar-kw'.  Every kw >= 0 and kvar >= 0 is accepted; the result
\* has kva >= 0 with kva^2 = kw^2 + kvar^2 and pf = kw / kva, and kw = 0 with
\* kvar = 0 gives kva = 0 and pf = 1.
C21_KvarKw ==
    Answered("kvar", "kw") =>
        LET P == trip.cvi.val["kw"]
            Q == trip.cvi.val["kvar"]
            r == trip.results
        IN  /\ r.ok /\ r.kw = P /\ r.kvar = Q
            /\ isFinite(r.kva) /\ r.kva >= 0
            /\ Close(Mul(r.kva, r.kva), Add(Mul(P, P), Mul(Q, Q)))
            /\ r.kva # 0 => r.pf = Div(P, r.kva)
            /\ P = 0 /\ Q = 0 => r.kva = 0 /\ r.pf = Unit

\* C22: case 'kva-pf'.  Every kva >= 0 and pf in [0, 1] is accepted; the
\* result has kw = kva * pf and kvar >= 0 with kvar^2 = kva^2 - kw^2.
C22_KvaPf ==
    Answered("kva", "pf") =>
        LET S == trip.cvi.val["kva"]
            F == trip.cvi.val["pf"]
            r == trip.results
        IN  /\ r.ok /\ r.kva = S /\ r.pf = F
            /\ r.kw = Mul(S, F)
            /\ IsLeg(r.kvar, S, r.kw)

\* the text t of field id is not empty and is unparseable, a negative power or
\* a power factor outside [0, 1]
Offends(id, t) ==
    /\ ~IsBlank(t)
    /\ \/ isNaN(parseFloat(t))
       \/ IsPower(id) /\ Less(parseFloat(t), 0)
       \/ id = "pf" /\ (Less(parseFloat(t), 0) \/ Greater(parseFloat(t), Unit))
\* the message that names field id for its text t
OffenceMessage(id, t) ==
    IF isNaN(parseFloat(t)) THEN "Invalid number entered for " \o toUpperCase(id) \o "."
    ELSE IF IsPower(id) THEN "Value for " \o toUpperCase(id) \o " cannot be negative."
    ELSE "Power Factor (PF) must be between 0 and 1."

\* C23: a recompute of an Unlocked panel in which some field offends stays
\* Unlocked with all four fields editable, computes nothing and shows the
\* message of an offending field, whatever the other fields hold.
C23_InvalidFieldStaysUnlocked ==
    (Recomputed /\ Unlocked(before) /\ \E id \in Ids : Offends(id, before.value[id])) =>
        /\ Unlocked(Panel)
        /\ AllEditable
        /\ NothingComputed
        /\ \E id \in Ids : /\ Offends(id, before.value[id])
                           /\ status = OffenceMessage(id, before.value[id])

\* C23 witness: one field offended while exactly two others were valid
C23_Witness ==
    /\ Recomputed /\ Unlocked(before)
    /\ Cardinality({id \in Ids : Offends(id, before.value[id])}) = 1
    /\ Cardinality(ValidIds(before)) = 2

\* C24: whenever the panel is Locked and no timeout is pending, the two source
\* fields hold valid numbers, the resolver accepts them, and each of the two
\* other fields holds the text of the resolver's result for them.
C24_DerivedCurrent ==
    (Locked(Panel) /\ timers = {}) =>
        LET r == Resolve(PairInputs(Panel, SourceSet(Panel)))
        IN  /\ SourceSet(Panel) \subseteq ValidIds(Panel)
            /\ r.ok
            /\ \A id \in Ids \ SourceSet(Panel) :
                   value[id] = IF isNaN(r[id]) THEN EmptyText ELSE toFixed3(r[id])

\* C24 witness: the timeout of an edit of a source has fired and the derived
\* fields have followed the edit
C24_Witness ==
    /\ Locked(Panel) /\ timers = {} /\ lastOp = "timer" /\ Locked(before)
    /\ \E id \in Ids \ SourceSet(Panel) : value[id] # before.value[id]

\* all four fields are empty
AllEmpty == \A id \in Ids : value[id] = EmptyText

\* C25: Clear leaves a pending timeout pending, with its handle in the
\* debounce, so that it fires as any pending timeout does; and when it fires
\* next after Clear, the panel is Unlocked with all four fields empty and
\* editable and the status empty.
C25_ClearKeepsTimer ==
    [][ /\ lastOp' = "clear" => timers' = timers /\ timeout' = timeout
        /\ (lastOp = "clear" /\ lastOp' = "timer") =>
               (Unlocked(Panel) /\ AllEmpty /\ AllEditable /\ status = "")' ]_vars

\* C25 witness: Clear has run on a Locked panel while a timeout was pending
C25_Witness == lastOp = "clear" /\ timers # {} /\ Locked(before)

\* the fields of the panel that hold a text
NonEmpty == {id \in Ids : value[id] # EmptyText}

\* C26: a recompute that takes the panel from Locked to Unlocked leaves the
\* two fields that were derived empty, so that at most two fields hold a text;
\* and no recompute of a Locked panel asks for exactly two values.
C26_ResetEmptiesDerived ==
    /\ (Recomputed /\ Locked(before) /\ Unlocked(Panel)) =>
           /\ \A id \in Ids \ SourceSet(before) : value[id] = EmptyText
           /\ Cardinality(NonEmpty) <= 2
    /\ (Recomputed /\ Locked(before)) => status # "Please provide exactly two values."

\* C26 witness: a recompute has reset a Locked panel
C26_Witness ==
    /\ Recomputed /\ Locked(before) /\ Unlocked(Panel)
    /\ \E id \in Ids \ SourceSet(before) : before.value[id] # EmptyText

\* C27: after a recompute started from a panel with no unparseable text, a
\* second recompute with no edit in between leaves the field values, the
\* read-only flags and the lock state as the first left them.
C27_RecomputeIdempotent ==
    (Recomputed /\ \A id \in Ids : before.value[id] # BadText) =>
        LET again == calculatePowerFactor(Panel)
        IN  /\ again.value = value
            /\ again.readOnly = readOnly
            /\ again.initialCalculationDone = initialCalculationDone
            /\ again.sourceFieldIds = sourceFieldIds

\* C27 witness: the 'change' listener has run a second recompute right after
\* a first that reset a Locked panel
C27_Witness ==
    /\ lastOp = "change" /\ before = Started(Panel)
    /\ Unlocked(Panel) /\ NonEmpty # {} /\ status # ""

\* C28: a recompute that succeeds, of an Unlocked or of a Locked panel, leaves
\* the texts of its two source fields as they were: only the two other fields
\* change.
C28_SourcesUntouched ==
    (Recomputed /\ Locked(Panel)) =>
        /\ Cardinality(SourceSet(Panel)) = 2
        /\ \A id \in SourceSet(Panel) : value[id] = before.value[id]
        /\ {id \in Ids : value[id] # before.value[id]} \subseteq Ids \ SourceSet(Panel)

\* C28 witness: a recompute of an Unlocked panel succeeded and wrote two fields
C28_Witness ==
    /\ Recomputed /\ Unlocked(before) /\ Locked(Panel)
    /\ Cardinality({id \in Ids : value[id] # before.value[id]}) = 2

\* C29: an input event leaves a timeout pending whose handle the debounce
\* holds; and a pending timeout whose handle the debounce holds leads to a
\* run of calculatePowerFactor by that timeout on the panel as it then is,
\* unless an input event replaces it by a timeout with another handle first.
C29_RecomputeEventually ==
    /\ [] (lastOp = "input" => timeout \in timers)
    /\ \A tid \in TimerIds :
           (timeout = tid /\ tid \in timers)
               ~> \/ lastOp = "timer" /\ tid \notin timers
                     /\ value = calculatePowerFactor(before).value
                  \/ timeout # tid

\* C29 witness: the timeout of the last of several edits has run the recompute
C29_Witness == lastOp = "timer" /\ timers = {} /\ edits = 2 /\ Locked(Panel)

====
